---- MODULE Spec2Model ----
(***************************************************************************)
(* A model of the x-ui provisioning client of vpn-bot-web-app              *)
(* (src/services/xui_service.py, src/config.py).                           *)
(*                                                                         *)
(* The panel is the environment: every HTTP response the client reads is   *)
(* an input of the call that reads it (the login script, the set of        *)
(* inbound-listing requests that go unanswered, the add-client response).  *)
(* Optional values of the code (None) are modelled as sequences of length  *)
(* 0 or 1; an absent string (None or "") is the empty string, because the  *)
(* code only ever tests such strings for truthiness.                       *)
(***************************************************************************)
EXTENDS Integers, Sequences, FiniteSets, TLC

VARIABLES
    cfg,            \* the values config.py read from the environment
    authenticated,  \* XUIService._authenticated
    panel,          \* the panel's inbound list, each inbound with its clients
    nextSub,        \* number of tokens handed out by uuid4 / token_urlsafe
    last,           \* the last completed call: its inputs, requests and result
    issued,         \* history: email -> URL of every call that returned success
    pc,             \* interleaved callers: position of each create_user call
    call,           \* interleaved callers: the locals of each create_user call
    user_data       \* the conversation: context.user_data of the one user

vars ==
    <<cfg, authenticated, panel, nextSub, last, issued, pc, call, user_data>>

----------------------------------------------------------------------------
(* Bounds of the model *)

MaxAccounts == 2    \* accounts the modelled calls may create
MaxListFault == 2   \* listing requests of one call that may go unanswered
FreeSlots == 2      \* device slots left free in the nearly full start panel
MaxInbounds == 3    \* inbounds of the lists an inbound is resolved from

(* Program constants *)

NoneId == -1            \* DEFAULT_INBOUND_ID = None (no inbound configured)
SafetyLimit == 100
\* "if counter > 100:  # Safety limit"

\* "if len(device_name) > 50" of handle_text_message
MaxDeviceName == 50

----------------------------------------------------------------------------
(* Optional values *)

NoneVal == <<>>
Some(x) == <<x>>
IsSome(o) == o # <<>>
The(o) == o[1]

RECURSIVE Join(_)
Join(toks) == IF toks = <<>> THEN "" ELSE Head(toks) \o Join(Tail(toks))

----------------------------------------------------------------------------
(* Subscription URL derivation.  A base URL is a sequence of tokens: the   *)
(* schemes "https://" and "http://", the separators ":" and "/", and       *)
(* pieces of text that contain none of these.                              *)

RECURSIVE Remove(_, _)
\* str.replace(tok, "")
Remove(s, tok) ==
    IF s = <<>> THEN <<>>
    ELSE IF Head(s) = tok THEN Remove(Tail(s), tok)
    ELSE <<Head(s)>> \o Remove(Tail(s), tok)

Contains(s, tok) == \E i \in 1..Len(s) : s[i] = tok

RECURSIVE BeforeFirst(_, _)
\* str.split(tok)[0]
BeforeFirst(s, tok) ==
    IF s = <<>> \/ Head(s) = tok THEN <<>>
    ELSE <<Head(s)>> \o BeforeFirst(Tail(s), tok)

RECURSIVE RStripSlash(_)
\* str.rstrip("/")
RStripSlash(s) ==
    IF s # <<>> /\ s[Len(s)] = "/" THEN RStripSlash(SubSeq(s, 1, Len(s) - 1))
    ELSE s

StripScheme(s) == Remove(Remove(s, "https://"), "http://")

\* the host of rule (b): XUI_SUBSCRIPTION_PORT is set
PortRuleHost(base) ==
    LET b == StripScheme(base)
    IN  IF Contains(b, ":") THEN BeforeFirst(b, ":")
        ELSE IF Contains(b, "/") THEN BeforeFirst(b, "/")
        ELSE b

\* the host of rule (c): neither override is set
FallbackRuleHost(base) ==
    LET b == StripScheme(base)
        host_port == IF Contains(b, "/") THEN BeforeFirst(b, "/") ELSE b
    IN  IF Contains(host_port, ":") THEN BeforeFirst(host_port, ":")
        ELSE host_port

\* the pieces of the URL, in the token form of the base URL; a configured
\* subscription host is one piece
UrlParts(c, sub_id) ==
    IF c.subHost # ""
        THEN <<"https://", c.subHost, "/", "sub", "/", sub_id>>
    ELSE IF c.subPort # ""
        THEN <<"https://">> \o PortRuleHost(c.base)
                 \o <<":", c.subPort, "/", "sub", "/", sub_id>>
    ELSE <<"https://">> \o FallbackRuleHost(c.base)
             \o <<":", "2096", "/", "sub", "/", sub_id>>

SubscriptionUrl(c, sub_id) == Join(UrlParts(c, sub_id))

_get_subscription_url(sub_id) == SubscriptionUrl(cfg, sub_id)

----------------------------------------------------------------------------
(* Session authentication *)

login_endpoints == <<"/login", "/xui/login", "/api/login", "/login/">>

\* What one login candidate answers: to the JSON request and, if the code
\* retries, to the form-encoded request.
\*   json: "ok200" (200, success flag set), "fail200" (200, success flag not
\*         set), "nonjson200" (200, body is not JSON), "404", "other" (any
\*         other status), "timeout", "refused", "error" (any other exception)
\*   form: "200" (200, no failure reported), "fail200" (200, success flag
\*         not set), "other", "timeout", "refused", "error"
Answer(j, f) == [json |-> j, form |-> f]

\* The candidates before the k-th answer pre, the k-th answers fin, the
\* candidates after it answer 404.
Script(pre, k, fin) ==
    [i \in 1..Len(login_endpoints) |->
        IF i < k THEN pre ELSE IF i = k THEN fin ELSE Answer("404", "other")]

\* the answers that make _login go on to the next candidate
SkipAnswers == { Answer("404", "other"), Answer("other", "other") }

\* the answers that can end _login
FinalAnswers ==
    { Answer("ok200", "other"), Answer("other", "200"),
      Answer("refused", "other"), Answer("404", "other") }

\* the login scripts the operations are run against
LoginScripts ==
    { Script(pre, k, fin) :
        pre \in SkipAnswers, k \in {1, Len(login_endpoints) - 1},
        fin \in FinalAnswers }

NoScript == Script(Answer("404", "other"), 1, Answer("404", "other"))

\* one login request: the candidate it goes to and the encoding of its body
Request(i, body) == [candidate |-> i, body |-> body]

RECURSIVE LoginFrom(_, _)
\* the loop of _login from candidate i on: the value returned, the number of
\* login requests sent and the requests themselves in the order sent
LoginFrom(script, i) ==
    IF i > Len(login_endpoints)
        THEN [ok |-> FALSE, sent |-> 0, requests |-> <<>>]
    ELSE
        LET r == script[i]
            next == LoginFrom(script, i + 1)
            json == <<Request(i, "json")>>
            both == <<Request(i, "json"), Request(i, "form")>>
        IN  IF r.json \in {"ok200", "nonjson200"}
                THEN [ok |-> TRUE, sent |-> 1, requests |-> json]
            ELSE IF r.json = "refused"
                THEN [ok |-> FALSE, sent |-> 1, requests |-> json]
            ELSE IF r.json \in {"fail200", "404", "timeout", "error"}
                THEN [ok |-> next.ok, sent |-> next.sent + 1,
                      requests |-> json \o next.requests]
            ELSE \* any other status: one form-encoded retry
                \* lines 80-83: status 200, the body is not read
                IF r.form \in {"200", "fail200"}
                    THEN [ok |-> TRUE, sent |-> 2, requests |-> both]
                ELSE IF r.form = "refused"
                    THEN [ok |-> FALSE, sent |-> 2, requests |-> both]
                ELSE [ok |-> next.ok, sent |-> next.sent + 2,
                      requests |-> both \o next.requests]

\* the script in which the candidates answering the JSON request with from
\* answer as to instead
Answering(script, from, to) ==
    [i \in DOMAIN script |-> IF script[i].json = from THEN to ELSE script[i]]

\* a login that goes on after a 200 with the success flag set
LoginPastSuccess(script) ==
    LoginFrom(Answering(script, "ok200", Answer("fail200", "other")), 1)

\* a login that retries a 404 with a form-encoded body
LoginRetrying404(script) ==
    LoginFrom(Answering(script, "404", Answer("other", "other")), 1)

\* a login that takes a connection refusal for a timeout
LoginPastRefusal(script) ==
    LoginFrom(Answering(script, "refused", Answer("timeout", "other")), 1)

_login(script) == LoginFrom(script, 1)

\* an _ensure_authenticated that logs in whatever the flag says
EnsureByLogin(auth, script) ==
    LET r == _login(script)
    IN  [ok |-> r.ok, auth |-> (auth \/ r.ok), sent |-> r.sent,
         requests |-> r.requests]

\* an _ensure_authenticated that drops the flag of an authenticated session
EnsureOnce(auth, script) ==
    IF ~auth
        THEN LET r == _login(script)
             IN  [ok |-> r.ok, auth |-> r.ok, sent |-> r.sent,
                  requests |-> r.requests]
    ELSE [ok |-> TRUE, auth |-> FALSE, sent |-> 0, requests |-> <<>>]

\* an _ensure_authenticated that marks the session whatever the login gave
EnsureMarksAnyway(auth, script) ==
    IF ~auth
        THEN LET r == _login(script)
             IN  [ok |-> r.ok, auth |-> TRUE, sent |-> r.sent,
                  requests |-> r.requests]
    ELSE [ok |-> TRUE, auth |-> TRUE, sent |-> 0, requests |-> <<>>]

\* _ensure_authenticated: the value returned, the flag afterwards and the
\* login requests sent
_ensure_authenticated(auth, script) ==
    IF ~auth
        THEN LET r == _login(script)
             IN  [ok |-> r.ok, auth |-> r.ok, sent |-> r.sent,
                  requests |-> r.requests]
    ELSE [ok |-> TRUE, auth |-> TRUE, sent |-> 0, requests |-> <<>>]

\* the login scripts a call can meet: none is read once authenticated
ScriptsFor(auth) == IF auth THEN {NoScript} ELSE LoginScripts

----------------------------------------------------------------------------
(* Reading the panel *)

\* An unanswered listing request (a status other than 200, or an exception)
\* is one whose index within the call is in the fault plan F.
\* Plans: every request is answered, one request is not, or none of the
\* first MaxListFault is.
FaultPlans ==
    {{}} \cup {{k} : k \in 1..MaxListFault} \cup {1..MaxListFault}
Answered(F, n) == n \notin F

\* a scan in list order: the first of the indices at which the test of the
\* scan holds, or 0
FirstWhere(hits) ==
    IF hits = {} THEN 0 ELSE CHOOSE i \in hits : \A j \in hits : i <= j

\* a scan that falls back to the first enabled inbound of any protocol
\* when no enabled inbound has the protocol asked for
ScanEnabledOrAny(inbounds, protocol) ==
    LET enabled == {k \in 1..Len(inbounds) : inbounds[k].enable}
        matching == {k \in enabled : protocol = ""
                                      \/ inbounds[k].protocol = protocol}
        i == IF matching # {} THEN FirstWhere(matching)
             ELSE FirstWhere(enabled)
    IN  IF i = 0 THEN NoneVal ELSE Some(inbounds[i])

\* _get_existing_inbound: the scan of an answered inbound list
ScanEnabled(inbounds, protocol) ==
    LET Qualifies(inb) ==
            inb.enable /\ ((protocol # "" /\ inb.protocol = protocol)
                           \/ protocol = "")
        i == FirstWhere({k \in 1..Len(inbounds) : Qualifies(inbounds[k])})
    IN  IF i = 0 THEN NoneVal ELSE Some(inbounds[i])

_get_existing_inbound(pnl, protocol, answered) ==
    IF ~answered THEN NoneVal ELSE ScanEnabled(pnl, protocol)

\* get_inbound_clients: the inbound with the given id in an answered list
get_inbound_clients(pnl, inbound_id, answered) ==
    LET HasId(inb) == inb.id = inbound_id
        i == FirstWhere({k \in 1..Len(pnl) : HasId(pnl[k])})
    IN  IF ~answered \/ i = 0 THEN NoneVal ELSE Some(pnl[i])

\* find_user_by_username, lines 482-486: the inbound looked at, and whether
\* a listing request is sent at all
check_inbound_id(inbound_id) ==
    IF inbound_id # NoneId THEN inbound_id ELSE cfg.inbound

LookupSends(inbound_id) ==
    check_inbound_id(inbound_id) # NoneId /\ check_inbound_id(inbound_id) # 0

\* a variant that compares the wrong field of the client with the name
ScanClientsBySubId(clients, username, inbound_id) ==
    LET Matches(c) == <<c.subId>> = username /\ c.subId # ""
        i == FirstWhere({k \in 1..Len(clients) : Matches(clients[k])})
    IN  IF i = 0 THEN NoneVal
        ELSE Some([username |-> username,
                   sub_id |-> clients[i].subId,
                   subscription_url |-> _get_subscription_url(clients[i].subId),
                   inbound_id |-> inbound_id])

\* a variant that takes a client whose email begins with the name
ScanClientsByPrefix(clients, username, inbound_id) ==
    LET Matches(c) == /\ Len(c.email) >= Len(username)
                      /\ SubSeq(c.email, 1, Len(username)) = username
                      /\ c.subId # ""
        i == FirstWhere({k \in 1..Len(clients) : Matches(clients[k])})
    IN  IF i = 0 THEN NoneVal
        ELSE Some([username |-> username,
                   sub_id |-> clients[i].subId,
                   subscription_url |-> _get_subscription_url(clients[i].subId),
                   inbound_id |-> inbound_id])

\* find_user_by_username, lines 506-523: the scan of the client list
ScanClients(clients, username, inbound_id) ==
    LET Matches(c) == c.email = username /\ c.subId # ""
        i == FirstWhere({k \in 1..Len(clients) : Matches(clients[k])})
    IN  IF i = 0 THEN NoneVal
        ELSE Some([username |-> username,
                   sub_id |-> clients[i].subId,
                   subscription_url |-> _get_subscription_url(clients[i].subId),
                   inbound_id |-> inbound_id])

\* find_user_by_username for an authenticated session; answered tells
\* whether its listing request is answered
find_user_by_username(pnl, username, inbound_id, answered) ==
    IF ~LookupSends(inbound_id) THEN NoneVal
    ELSE LET inbound == get_inbound_clients(pnl, check_inbound_id(inbound_id),
                                            answered)
         IN  IF ~IsSome(inbound) THEN NoneVal
             ELSE ScanClients(The(inbound).clients, username,
                              check_inbound_id(inbound_id))

----------------------------------------------------------------------------
(* Text.  Usernames, device names and emails are sequences of characters:  *)
(* the code concatenates them, compares them and cuts prefixes off them.   *)

RECURSIVE Digits(_)
\* str(n) of a natural number
Digits(n) ==
    IF n < 10 THEN <<ToString(n)>> ELSE Digits(n \div 10) \o <<ToString(n % 10)>>

\* f"{username}_{device_name}"
DeviceEmail(username, device_name) == username \o <<"_">> \o device_name

\* f"{username}_{device_name}_{counter}"
NumberedEmail(username, device_name, counter) ==
    username \o <<"_">> \o device_name \o <<"_">> \o Digits(counter)

\* str(telegram_user_id)
OwnerTag(telegram_user_id) == Join(Digits(telegram_user_id))

----------------------------------------------------------------------------
(* create_user *)

\* The value a call returns: a dict, or None.
NoneResult ==
    [isNone |-> TRUE, success |-> FALSE, error |-> "",
     subscription_url |-> "", sub_id |-> "", inbound_id |-> NoneId]

ErrorResult(error, url) ==
    [isNone |-> FALSE, success |-> FALSE, error |-> error,
     subscription_url |-> url, sub_id |-> "", inbound_id |-> NoneId]

CreatedResult(sub_id, inbound_id) ==
    [isNone |-> FALSE, success |-> TRUE, error |-> "",
     subscription_url |-> _get_subscription_url(sub_id), sub_id |-> sub_id,
     inbound_id |-> inbound_id]

\* a variant that stops one slot early
LimitReachedEarly(counter) == counter >= SafetyLimit

\* "if counter > 100:  # Safety limit"
LimitReached(counter) == counter > SafetyLimit

\* a variant that takes the first numbered email without looking it up
ProbeBlind(pnl, username, device_name, counter, F) ==
    [kind |-> "go", email |-> NumberedEmail(username, device_name, counter),
     found |-> NoneVal, lookups |-> counter]

\* the auto-increment loop, entered with counter: the counters it can come
\* to are counter itself and those after it that the safety limit allows;
\* it stops at the first of them whose email is not found. The lookup for a
\* counter is the counter-th listing request of the call.
Probe(pnl, username, device_name, counter, F) ==
    LET Tried == { c \in counter..(SafetyLimit + 1) :
                       c = counter \/ ~LimitReached(c) }
        Free == { c \in Tried :
                      ~IsSome(find_user_by_username(
                                  pnl, NumberedEmail(username, device_name, c),
                                  NoneId, Answered(F, c))) }
        top == CHOOSE c \in Tried : \A d \in Tried : d <= c
    IN  IF Free = {}
            THEN [kind |-> "too_many",
                  email |-> NumberedEmail(username, device_name, top),
                  found |-> NoneVal, lookups |-> top]
        ELSE LET c == CHOOSE c \in Free : \A d \in Free : c <= d
             IN  [kind |-> "go",
                  email |-> NumberedEmail(username, device_name, c),
                  found |-> NoneVal, lookups |-> c]

\* a variant that never numbers a device email
ChooseEmailUnnumbered(pnl, username, device_name, F) ==
    IF device_name # <<>>
        THEN [kind |-> "go", email |-> DeviceEmail(username, device_name),
              found |-> NoneVal, lookups |-> 1]
    ELSE LET existing_user == find_user_by_username(pnl, username, NoneId,
                                                    Answered(F, 1))
         IN  IF IsSome(existing_user)
                 THEN [kind |-> "exists", email |-> username,
                       found |-> existing_user, lookups |-> 1]
             ELSE [kind |-> "go", email |-> username, found |-> NoneVal,
                   lookups |-> 1]

\* lines 187-220: the email of the account to create, or the reason not to
\* create one
ChooseEmail(pnl, username, device_name, F) ==
    IF device_name # <<>>
        THEN LET email == DeviceEmail(username, device_name)
                 existing_user == find_user_by_username(pnl, email, NoneId,
                                                        Answered(F, 1))
             IN  IF IsSome(existing_user)
                     THEN Probe(pnl, username, device_name, 2, F)
                 ELSE [kind |-> "go", email |-> email, found |-> NoneVal,
                       lookups |-> 1]
    ELSE LET existing_user == find_user_by_username(pnl, username, NoneId,
                                                    Answered(F, 1))
         IN  IF IsSome(existing_user)
                 THEN [kind |-> "exists", email |-> username,
                       found |-> existing_user, lookups |-> 1]
             ELSE [kind |-> "go", email |-> username, found |-> NoneVal,
                   lookups |-> 1]

\* a variant that tests the configured id for truth, as the lookups do
InboundTruthy == cfg.inbound # NoneId /\ cfg.inbound # 0

\* "if DEFAULT_INBOUND_ID is not None:"
InboundConfigured == cfg.inbound # NoneId

\* lines 227-245: the inbound to add the client to (NoneId: none), and the
\* listing requests sent to find it; n listing requests were sent before
TargetInbound(pnl, F, n) ==
    IF InboundConfigured THEN [id |-> cfg.inbound, sent |-> 0]
    ELSE LET existing_inbound ==
                 _get_existing_inbound(pnl, cfg.protocol, Answered(F, n + 1))
         IN  IF IsSome(existing_inbound)
                 THEN [id |-> The(existing_inbound).id, sent |-> 1]
             ELSE [id |-> NoneId, sent |-> 1]

\* What the panel answers to the add-client request:
\*   "ok"         200, success flag set: the client was added
\*   "fail_exist" 200, success flag not set, msg names an existing client
\*   "fail_other" 200, success flag not set, any other msg
\*   "bad_json"   200, body is not JSON
\*   "http_exist" another status, JSON body whose msg names an existing client
\*   "http_other" another status with any other body, or an exception
AddResponses ==
    {"ok", "fail_exist", "fail_other", "bad_json", "http_exist", "http_other"}

\* '"exist" in error_lower or "duplicate" in error_lower or "already" in ...'
IndicatesExisting(ar) == ar \in {"fail_exist", "http_exist"}

\* lines 334 and 355: the name the conflicting account is looked up by
RequeryKey(username, email) == username

\* a variant in which the new client takes the place of the others
AddClientAlone(pnl, inbound_id, client) ==
    [i \in 1..Len(pnl) |->
        IF pnl[i].id = inbound_id
            THEN [pnl[i] EXCEPT !.clients = <<client>>]
        ELSE pnl[i]]

\* the panel after it added a client to an inbound
AddClient(pnl, inbound_id, client) ==
    [i \in 1..Len(pnl) |->
        IF pnl[i].id = inbound_id
            THEN [pnl[i] EXCEPT !.clients = Append(@, client)]
        ELSE pnl[i]]

\* a variant that sends the request again when the panel refuses it
SubmitAgain(pnl, sub_id, telegram_user_id, username, email, inbound_id, ar, F, n) ==
    LET client == [email |-> email, subId |-> sub_id,
                   tgId |-> OwnerTag(telegram_user_id)]
    IN  IF ar = "ok"
            THEN [result |-> CreatedResult(sub_id, inbound_id),
                  panel |-> AddClient(pnl, inbound_id, client),
                  path |-> "created", nList |-> 0, nAdd |-> 1,
                  requeried |-> FALSE]
        ELSE [result |-> NoneResult, panel |-> pnl, path |-> "create_failed",
              nList |-> 0, nAdd |-> 2, requeried |-> FALSE]

\* lines 247-366: the add-client request and what is made of its answer; n
\* listing requests were sent before
Submit(pnl, sub_id, telegram_user_id, username, email, inbound_id, ar, F, n) ==
    LET client == [email |-> email, subId |-> sub_id,
                   tgId |-> OwnerTag(telegram_user_id)]
    IN  IF ar = "ok"
            THEN [result |-> CreatedResult(sub_id, inbound_id),
                  panel |-> AddClient(pnl, inbound_id, client),
                  path |-> "created", nList |-> 0, nAdd |-> 1,
                  requeried |-> FALSE]
        ELSE IF IndicatesExisting(ar)
            THEN LET key == RequeryKey(username, email)
                     existing_user == find_user_by_username(
                         pnl, key, inbound_id, Answered(F, n + 1))
                     sent == IF LookupSends(inbound_id) THEN 1 ELSE 0
                 IN  IF IsSome(existing_user)
                         THEN [result |-> ErrorResult("username_exists",
                                   The(existing_user).subscription_url),
                               panel |-> pnl, path |-> "exists_requery",
                               nList |-> sent, nAdd |-> 1, requeried |-> TRUE]
                     ELSE [result |-> NoneResult, panel |-> pnl,
                           path |-> "create_failed", nList |-> sent,
                           nAdd |-> 1, requeried |-> TRUE]
        ELSE [result |-> NoneResult, panel |-> pnl, path |-> "create_failed",
              nList |-> 0, nAdd |-> 1, requeried |-> FALSE]

\* the token of the next account: secrets.token_urlsafe(12) never repeats
FreshSubId(n) == "s" \o ToString(n + 1)

\* What a call did, for the record kept in last.
Done(result, path, email, target, auth, pnl, nLogin, looked, nResolve, nList, nAdd, requeried) ==
    [result |-> result, path |-> path, email |-> email, target |-> target,
     auth |-> auth, panel |-> pnl, nLogin |-> nLogin, looked |-> looked,
     nResolve |-> nResolve, nList |-> nList, nAdd |-> nAdd,
     requeried |-> requeried]

\* What create_user has settled when it is about to build the client
\* (line 247), or the result it has returned before that.
Prepared(stop, result, path, email, target, auth, nLogin, looked, nResolve) ==
    [stop |-> stop, result |-> result, path |-> path, email |-> email,
     target |-> target, auth |-> auth, nLogin |-> nLogin, looked |-> looked,
     nResolve |-> nResolve, nList |-> looked + nResolve]

\* a variant that opens the session before it tests the username
SessionFirst(auth, username, script) ==
    LET a == _ensure_authenticated(auth, script)
    IN  IF ~a.ok
            THEN [ok |-> FALSE, path |-> "auth_failed", auth |-> a.auth,
                  sent |-> a.sent]
        ELSE IF username = <<>>
            THEN [ok |-> FALSE, path |-> "username_required", auth |-> a.auth,
                  sent |-> a.sent]
        ELSE [ok |-> TRUE, path |-> "auth_failed", auth |-> a.auth,
              sent |-> a.sent]

\* a variant that goes on whatever _ensure_authenticated returned
SessionUnchecked(auth, username, script) ==
    IF username = <<>>
        THEN [ok |-> FALSE, path |-> "username_required", auth |-> auth,
              sent |-> 0]
    ELSE LET a == _ensure_authenticated(auth, script)
         IN  [ok |-> TRUE, path |-> "auth_failed", auth |-> a.auth,
              sent |-> a.sent]

\* lines 173-183: the username is tested before the session
UsernameFirst(auth, username, script) ==
    IF username = <<>>
        THEN [ok |-> FALSE, path |-> "username_required", auth |-> auth,
              sent |-> 0]
    ELSE LET a == _ensure_authenticated(auth, script)
         IN  [ok |-> a.ok, path |-> "auth_failed", auth |-> a.auth,
              sent |-> a.sent]

\* create_user, lines 173-245
Prepare(pnl, auth, username, device_name, script, F) ==
    LET g == UsernameFirst(auth, username, script)
    IN  IF ~g.ok /\ g.path = "username_required"
            THEN Prepared(TRUE, ErrorResult("username_required", ""),
                          g.path, <<>>, NoneId, g.auth, g.sent, 0, 0)
        ELSE IF ~g.ok
            THEN Prepared(TRUE, NoneResult, g.path, <<>>, NoneId, g.auth,
                          g.sent, 0, 0)
        ELSE
        LET ch == ChooseEmail(pnl, username, device_name, F)
            looked == IF LookupSends(NoneId) THEN ch.lookups ELSE 0
        IN  IF ch.kind = "exists"
                THEN Prepared(TRUE,
                              ErrorResult("username_exists",
                                          The(ch.found).subscription_url),
                              "exists", ch.email, NoneId, g.auth, g.sent,
                              looked, 0)
            ELSE IF ch.kind = "too_many"
                THEN Prepared(TRUE, ErrorResult("too_many_devices", ""),
                              "too_many", ch.email, NoneId, g.auth, g.sent,
                              looked, 0)
            ELSE
            LET tgt == TargetInbound(pnl, F, looked)
            IN  IF tgt.id = NoneId
                    THEN Prepared(TRUE, NoneResult, "no_inbound", ch.email,
                                  NoneId, g.auth, g.sent, looked, tgt.sent)
                ELSE Prepared(FALSE, NoneResult, "", ch.email, tgt.id,
                              g.auth, g.sent, looked, tgt.sent)

\* a variant that looks the email up once more before it submits it
FinishRechecked(pre, pnl, n, telegram_user_id, username, ar, F) ==
    IF pre.stop
        THEN Done(pre.result, pre.path, pre.email, pre.target, pre.auth, pnl,
                  pre.nLogin, pre.looked, pre.nResolve, pre.nList, 0, FALSE)
    ELSE LET again == find_user_by_username(pnl, pre.email, pre.target, TRUE)
             sub == Submit(pnl, FreshSubId(n), telegram_user_id, username,
                           pre.email, pre.target, ar, F, pre.nList)
         IN  IF IsSome(again)
                 THEN Done(ErrorResult("username_exists",
                                       The(again).subscription_url),
                           "exists", pre.email, pre.target, pre.auth, pnl,
                           pre.nLogin, pre.looked, pre.nResolve,
                           pre.nList + 1, 0, FALSE)
             ELSE Done(sub.result, sub.path, pre.email, pre.target, pre.auth,
                       sub.panel, pre.nLogin, pre.looked, pre.nResolve,
                       pre.nList + sub.nList, sub.nAdd, sub.requeried)

\* create_user, lines 247-370, after Prepare settled pre
Finish(pre, pnl, n, telegram_user_id, username, ar, F) ==
    IF pre.stop
        THEN Done(pre.result, pre.path, pre.email, pre.target, pre.auth, pnl,
                  pre.nLogin, pre.looked, pre.nResolve, pre.nList, 0, FALSE)
    ELSE LET sub == Submit(pnl, FreshSubId(n), telegram_user_id, username,
                           pre.email, pre.target, ar, F, pre.nList)
         IN  Done(sub.result, sub.path, pre.email, pre.target, pre.auth,
                  sub.panel, pre.nLogin, pre.looked, pre.nResolve,
                  pre.nList + sub.nList, sub.nAdd, sub.requeried)

\* create_user as one uninterrupted call
create_user(pnl, auth, n, telegram_user_id, username, device_name, script, F, ar) ==
    Finish(Prepare(pnl, auth, username, device_name, script, F),
           pnl, n, telegram_user_id, username, ar, F)

----------------------------------------------------------------------------
(* Lookups *)

\* the label of the first device (a fixed Russian phrase in the source)
PrimaryDeviceLabel == <<"primary device">>

StartsWith(s, prefix) ==
    Len(s) >= Len(prefix) /\ SubSeq(s, 1, Len(prefix)) = prefix

\* a variant that takes off the user name without asking for the "_"
DeviceLabelByPrefix(client_email, base_username) ==
    IF base_username # <<>>
        THEN IF client_email = base_username THEN PrimaryDeviceLabel
             ELSE IF StartsWith(client_email, base_username)
                 THEN SubSeq(client_email, Len(base_username) + 1,
                             Len(client_email))
             ELSE client_email
    ELSE client_email

\* lines 597-611: the device name shown for a client's email
DeviceLabel(client_email, base_username) ==
    IF base_username # <<>>
        THEN IF client_email = base_username THEN PrimaryDeviceLabel
             ELSE IF StartsWith(client_email, base_username \o <<"_">>)
                 THEN SubSeq(client_email, Len(base_username) + 2,
                             Len(client_email))
             ELSE client_email
    ELSE client_email

RECURSIVE OwnedByName(_, _, _)
\* a variant that takes the clients of a user by their email, not their tgId
OwnedByName(clients, telegram_user_id, base_username) ==
    IF clients = <<>> THEN <<>>
    ELSE LET client == Head(clients)
             rest == OwnedByName(Tail(clients), telegram_user_id,
                                 base_username)
         IN  IF client.email # base_username THEN rest
             ELSE IF client.subId = "" THEN rest
             ELSE <<[email |-> client.email,
                     subscription_url |-> _get_subscription_url(client.subId),
                     device_name |-> client.email,
                     sub_id |-> client.subId]>> \o rest

RECURSIVE OwnedByNewestFirst(_, _, _)
\* a variant that puts each client before the ones read earlier
OwnedByNewestFirst(clients, telegram_user_id, base_username) ==
    IF clients = <<>> THEN <<>>
    ELSE LET client == Head(clients)
             rest == OwnedByNewestFirst(Tail(clients), telegram_user_id,
                                        base_username)
         IN  IF client.tgId # OwnerTag(telegram_user_id) THEN rest
             ELSE IF client.subId = "" THEN rest
             ELSE rest \o <<[email |-> client.email,
                             subscription_url |->
                                 _get_subscription_url(client.subId),
                             device_name |-> client.email,
                             sub_id |-> client.subId]>>

RECURSIVE OwnedBy(_, _, _)
\* lines 581-618: the loop over the clients of the default inbound
OwnedBy(clients, telegram_user_id, base_username) ==
    IF clients = <<>> THEN <<>>
    ELSE LET client == Head(clients)
             rest == OwnedBy(Tail(clients), telegram_user_id, base_username)
         IN  IF client.tgId # OwnerTag(telegram_user_id) THEN rest
             ELSE IF client.subId = "" THEN rest
             ELSE LET label == DeviceLabel(client.email, base_username)
                  IN  <<[email |-> client.email,
                         subscription_url |->
                             _get_subscription_url(client.subId),
                         device_name |-> IF label # <<>> THEN label
                                         ELSE client.email,
                         sub_id |-> client.subId]>> \o rest

\* "if not DEFAULT_INBOUND_ID:"
DefaultInboundUsable == cfg.inbound # NoneId /\ cfg.inbound # 0

\* get_all_user_subscriptions for an authenticated session
get_all_user_subscriptions(pnl, telegram_user_id, username, answered) ==
    IF ~DefaultInboundUsable THEN <<>>
    ELSE LET inbound == get_inbound_clients(pnl, cfg.inbound, answered)
         IN  IF ~IsSome(inbound) THEN <<>>
             ELSE OwnedBy(The(inbound).clients, telegram_user_id, username)

----------------------------------------------------------------------------
(* The configurations and the panels the model starts from *)

\* XUI_URL = os.getenv("XUI_URL", "").rstrip("/")
XUI_URL ==
    RStripSlash(<<"https://", "panel.example.com", ":", "54321", "/", "admin",
                  "/">>)

Config(inbound, protocol) ==
    [inbound |-> inbound, protocol |-> protocol, subHost |-> "",
     subPort |-> "", base |-> XUI_URL]

\* No inbound id with each protocol, and the inbound ids 0, 1 (on the
\* panel) and 4 (not on the panel) with the default protocol.
Configs ==
    { Config(NoneId, protocol) : protocol \in {"vmess", "vless", "trojan"} }
        \cup { Config(inbound, "vmess") : inbound \in {0, 1, 4} }

Inbound(id, protocol, enable, clients) ==
    [id |-> id, protocol |-> protocol, enable |-> enable, clients |-> clients]

\* a panel with three inbounds, the first of them disabled
PanelWith(clients) ==
    << Inbound(3, "vless", FALSE, <<>>),
       Inbound(1, "vless", TRUE, clients),
       Inbound(2, "vmess", TRUE, <<>>) >>

\* an account made by hand before the panel issued subscription ids
LegacyClients == << [email |-> <<"a">>, subId |-> "", tgId |-> "1"] >>

\* the accounts a_b, a_b_2, ... of owner 1, all but the last FreeSlots
NearlyFullClients ==
    [i \in 1..(SafetyLimit - FreeSlots) |->
        [email |-> IF i = 1 THEN DeviceEmail(<<"a">>, <<"b">>)
                   ELSE NumberedEmail(<<"a">>, <<"b">>, i),
         subId |-> "p" \o ToString(i),
         tgId |-> "1"]]

\* the callers: (telegram_user_id, username); the second has the name of a
\* device email of the first, the third has no username
Alice == [id |-> 1, username |-> <<"a">>]
Nameless == [id |-> 3, username |-> <<>>]
Identities == { Alice, [id |-> 2, username |-> <<"a", "_", "b">>], Nameless }

\* the callers that create accounts
Creators == { Alice, Nameless }

Devices == { <<>>, <<"b">> }

PanelIds(pnl) == { pnl[i].id : i \in 1..Len(pnl) }

ClientsOf(pnl, inbound_id) ==
    LET inbound == get_inbound_clients(pnl, inbound_id, TRUE)
    IN  IF IsSome(inbound) THEN The(inbound).clients ELSE <<>>

EmailsOf(pnl, inbound_id) ==
    { ClientsOf(pnl, inbound_id)[i].email :
        i \in 1..Len(ClientsOf(pnl, inbound_id)) }

----------------------------------------------------------------------------
(* The record of the last call *)

NoCall ==
    [op |-> "none", tg |-> 0, username |-> <<>>, device |-> <<>>, arg |-> "",
     result |-> NoneResult, path |-> "", email |-> <<>>, target |-> NoneId,
     nLogin |-> 0, looked |-> 0, nResolve |-> 0, nList |-> 0, nAdd |-> 0,
     indicated |-> FALSE, requeried |-> FALSE, requeryAnswered |-> FALSE,
     resolveAnswered |-> FALSE, taken |-> FALSE, takenKeyed |-> FALSE,
     fresh |-> FALSE, checked |-> FALSE,
     ok |-> FALSE, found |-> NoneVal, subs |-> <<>>, inb |-> NoneId,
     requests |-> <<>>]

\* the emails of the accounts of an inbound that carry a subId
KeyedEmailsOf(pnl, inbound_id) ==
    { ClientsOf(pnl, inbound_id)[i].email :
        i \in { j \in 1..Len(ClientsOf(pnl, inbound_id)) :
                    ClientsOf(pnl, inbound_id)[j].subId # "" } }

\* every existence lookup of a call that made looked of them under the
\* fault plan F was sent and read the default inbound
Checked(pnl, looked, F) ==
    /\ looked > 0
    /\ cfg.inbound \in PanelIds(pnl)
    /\ \A i \in 1..looked : Answered(F, i)

\* the record of a create_user call that did out; pnl is the panel it met,
\* F its fault plan and ar the add-client answer it read, if it read one
CreateRecord(who, device_name, out, pnl, F, ar) ==
    [NoCall EXCEPT
        !.op = "create", !.tg = who.id, !.username = who.username,
        !.device = device_name, !.result = out.result, !.path = out.path,
        !.email = out.email, !.target = out.target, !.nLogin = out.nLogin,
        !.looked = out.looked, !.nResolve = out.nResolve,
        !.nList = out.nList, !.nAdd = out.nAdd,
        !.indicated = out.nAdd > 0 /\ IndicatesExisting(ar),
        !.requeried = out.requeried,
        !.requeryAnswered = out.requeried /\ Answered(F, out.nList),
        !.resolveAnswered = out.nResolve > 0 /\ Answered(F, out.looked + 1),
        \* the email submitted was already in the target inbound
        !.taken = out.nAdd > 0 /\ out.email \in EmailsOf(pnl, out.target),
        \* ... and the account that had it carries a subId
        !.takenKeyed = out.nAdd > 0
                        /\ out.email \in KeyedEmailsOf(pnl, out.target),
        \* no account of the panel had the email of the call
        !.fresh = \A id \in PanelIds(pnl) : out.email \notin EmailsOf(pnl, id),
        !.checked = Checked(pnl, out.looked, F)]

\* what issued remembers of a call that returned success
IssuedRecord(rec) ==
    [tg |-> rec.tg, device |-> rec.device, email |-> rec.email,
     url |-> rec.result.subscription_url, sub_id |-> rec.result.sub_id,
     fresh |-> rec.fresh, checked |-> rec.checked]

\* the add-client answers a call can meet: none is read if none is sent
ResponsesFor(pre) == IF pre.stop THEN {"ok"} ELSE AddResponses

----------------------------------------------------------------------------
(* The operations, each as one uninterrupted call *)

\* createAccount(identity, device?) for callers, devices and fault plans
\* drawn from the given sets
CreateWith(whos, devices, plans) ==
    \E who \in whos, device_name \in devices,
       script \in ScriptsFor(authenticated), F \in plans :
    \E pre \in {Prepare(panel, authenticated, who.username, device_name,
                        script, F)} :
    \E ar \in ResponsesFor(pre) :
    \E out \in {Finish(pre, panel, nextSub, who.id, who.username, ar, F)} :
    \E rec \in {CreateRecord(who, device_name, out, panel, F, ar)} :
        /\ out.path = "created" => /\ nextSub < MaxAccounts
                                   /\ out.target \in PanelIds(panel)
        /\ authenticated' = out.auth
        /\ panel' = out.panel
        /\ nextSub' = IF out.path = "created" THEN nextSub + 1 ELSE nextSub
        /\ issued' = IF out.path = "created"
                         THEN issued \cup {IssuedRecord(rec)}
                     ELSE issued
        /\ last' = rec
        /\ UNCHANGED <<cfg, pc, call, user_data>>

CreateAccount == CreateWith(Creators, Devices, FaultPlans)

Init ==
    /\ cfg \in Configs
    /\ authenticated = FALSE
    /\ panel \in { PanelWith(<<>>), PanelWith(LegacyClients) }
    /\ nextSub = 0
    /\ last = NoCall
    /\ issued = {}
    /\ pc = <<>>
    /\ user_data = <<>>
    /\ call = <<>>

Next == CreateAccount

\* createAccount calls, each completing before the next begins
Spec == Init /\ [][Next]_vars

----------------------------------------------------------------------------
(* Claims about createAccount, checked under Spec *)

IsCreate(rec) == rec.op = "create"

UsernameRequired == ErrorResult("username_required", "")
AlreadyExists(url) == ErrorResult("username_exists", url)

\* C8: createAccount for an identity without username returns
\* UsernameRequired having sent no login, inbound-listing or add-client
\* request, and leaves the session flag and the panel as they were.
C8_UsernameRequiredFirst ==
    [][ (IsCreate(last') /\ last'.username = <<>>)
            => /\ last'.result = UsernameRequired
               /\ last'.nLogin = 0 /\ last'.nList = 0 /\ last'.nAdd = 0
               /\ authenticated' = authenticated
               /\ panel' = panel ]_vars

\* a call without username on a session that is not authenticated
C8_Witness ==
    /\ IsCreate(last) /\ last.username = <<>>
    /\ last.result = UsernameRequired
    /\ ~authenticated

\* C9: a createAccount call sends at most one add-client request, whatever
\* its outcome.
C9_AtMostOneAdd == IsCreate(last) => last.nAdd <= 1

\* a call whose add-client request was refused and that re-queried
C9_Witness ==
    /\ IsCreate(last) /\ last.path = "exists_requery" /\ last.nAdd = 1
    /\ last.requeried

\* the account a successful call says it created
AccountOf(rec) ==
    [email |-> rec.email, subId |-> rec.result.sub_id,
     tgId |-> OwnerTag(rec.tg)]

\* an earlier call by the caller of rec, without device, created an account
\* whose email no account of the panel had
FirstCreate(r, rec) ==
    /\ r.tg = rec.tg /\ r.device = <<>> /\ r.fresh
    /\ IsCreate(rec) /\ rec.device = <<>>

\* a successful call leaves its account, under the username, in the inbound
\* it targeted, and returns the URL of that account's subId
CreatedIsOnPanel ==
    (IsCreate(last') /\ last'.device = <<>> /\ last'.path = "created")
        => /\ last'.email = last'.username
           /\ \E i \in 1..Len(ClientsOf(panel', last'.target)) :
                  ClientsOf(panel', last'.target)[i] = AccountOf(last')
           /\ last'.result.subscription_url
                  = _get_subscription_url(last'.result.sub_id)

RequeryByEmail(rec) ==
    LET existing_user == find_user_by_username(panel, rec.email, rec.target,
                                               rec.requeryAnswered)
    IN  IF IsSome(existing_user)
            THEN AlreadyExists(The(existing_user).subscription_url)
        ELSE NoneResult

\* C6: when the add-client request fails with a text that names an existing
\* account, createAccount re-queries by the email it tried to create and
\* returns AlreadyExists with that account's URL if it is found, otherwise
\* CreateFailed; with any other failure it returns CreateFailed without a
\* re-query.
C6_RequeryByCandidateEmail ==
    (IsCreate(last) /\ last.nAdd = 1 /\ last.path # "created")
        => IF last.indicated
               THEN last.requeried /\ last.result = RequeryByEmail(last)
           ELSE ~last.requeried /\ last.result = NoneResult

\* the calls that reached the choice of the target inbound
ChoseTarget(rec) ==
    /\ IsCreate(rec)
    /\ rec.path \in {"no_inbound", "created", "exists_requery",
                     "create_failed"}

\* what resolveInbound(configured protocol) gave the call
Resolved(rec) ==
    LET existing_inbound ==
            _get_existing_inbound(panel, cfg.protocol, rec.resolveAnswered)
    IN  IF IsSome(existing_inbound) THEN The(existing_inbound).id ELSE NoneId

\* the configured inbound id is used without resolveInbound; without one
\* the call uses resolveInbound(configured protocol)
TargetsConfigured ==
    ChoseTarget(last)
        => /\ IF cfg.inbound # NoneId
                  THEN last.nResolve = 0 /\ last.target = cfg.inbound
              ELSE last.nResolve = 1 /\ last.target = Resolved(last)
           /\ last.path = "no_inbound" <=> last.target = NoneId
           /\ last.path = "no_inbound" => last.nAdd = 0

----------------------------------------------------------------------------
(* Device slots: one identity adds the same device to a panel that has
   nearly used up the numbered emails of that device *)

InitSlots ==
    /\ cfg \in {Config(1, "vmess"), Config(NoneId, "vless")}
    /\ authenticated = FALSE
    /\ panel = PanelWith(NearlyFullClients)
    /\ nextSub = 0
    /\ last = NoCall
    /\ issued = {}
    /\ pc = <<>>
    /\ user_data = <<>>
    /\ call = <<>>

AddSameDevice == CreateWith({Alice}, {<<"b">>}, FaultPlans)

NextSlots == AddSameDevice

SpecSlots == InitSlots /\ [][NextSlots]_vars

\* the k-th email of a device: username_device, then username_device_k
SlotEmail(username, device_name, k) ==
    IF k = 1 THEN DeviceEmail(username, device_name)
    ELSE NumberedEmail(username, device_name, k)

\* the first k in 1..SafetyLimit whose email is none of taken; 0 if none
FirstFreeSlot(username, device_name, taken) ==
    LET free == { k \in 1..SafetyLimit :
                      SlotEmail(username, device_name, k) \notin taken }
    IN  IF free = {} THEN 0
        ELSE CHOOSE k \in free : \A j \in free : k <= j

TooManyDeviceSlots == ErrorResult("too_many_devices", "")

\* the emails of all accounts of the panel
AllEmails(pnl) == UNION { EmailsOf(pnl, id) : id \in PanelIds(pnl) }

\* a device call that got past the username test and the login takes the
\* first free slot, or is rejected without an add-client request
TakesFirstFreeSlot(rec, taken) ==
    LET k == FirstFreeSlot(rec.username, rec.device, taken)
    IN  IF k = 0
            THEN /\ rec.result = TooManyDeviceSlots
                 /\ rec.nAdd = 0
        ELSE /\ rec.email = SlotEmail(rec.username, rec.device, k)
             /\ rec.result # TooManyDeviceSlots

IsDeviceCall(rec) ==
    /\ IsCreate(rec) /\ rec.device # <<>>
    /\ rec.path \notin {"username_required", "auth_failed"}

----------------------------------------------------------------------------
(* Two devices: one identity adds two devices whose emails can meet *)

\* the accounts a_b and a_b_2 of owner 1, made before the model starts
TwoDeviceClients ==
    << [email |-> DeviceEmail(<<"a">>, <<"b">>), subId |-> "p1", tgId |-> "1"],
       [email |-> NumberedEmail(<<"a">>, <<"b">>, 2), subId |-> "p2",
        tgId |-> "1"] >>

\* accounts of two owners, one of them without subId
MixedClients ==
    << [email |-> <<"a">>, subId |-> "m1", tgId |-> "1"],
       [email |-> <<"z">>, subId |-> "m2", tgId |-> "2"],
       [email |-> <<"a", "_", "b">>, subId |-> "", tgId |-> "1"],
       [email |-> <<"a", "_", "b">>, subId |-> "m4", tgId |-> "1"],
       [email |-> <<"a", "a">>, subId |-> "m5", tgId |-> "11"] >>

\* the label whose first email is the second email of the label b
DeviceLabels == { <<"b">>, <<"b", "_", "2">> }

InitDevices ==
    /\ cfg \in {Config(1, "vmess"), Config(NoneId, "vless")}
    /\ authenticated = FALSE
    /\ panel \in {PanelWith(<<>>), PanelWith(TwoDeviceClients)}
    /\ nextSub = 0
    /\ last = NoCall
    /\ issued = {}
    /\ pc = <<>>
    /\ user_data = <<>>
    /\ call = <<>>

AddDevice == CreateWith({Alice}, DeviceLabels, FaultPlans)

NextDevices == AddDevice

SpecDevices == InitDevices /\ [][NextDevices]_vars

\* two accounts created for one identity under two different device labels
TwoLabels(r1, r2) ==
    /\ r1.tg = r2.tg
    /\ r1.device # <<>> /\ r2.device # <<>> /\ r1.device # r2.device

\* findByEmail(email) returns the account the call created
Resolves(r) ==
    LET found == find_user_by_username(panel, r.email, NoneId, TRUE)
    IN  IsSome(found) /\ The(found).sub_id = r.sub_id

----------------------------------------------------------------------------
(* Every operation of the service, one call at a time *)

LookupEmails == { <<"a">>, <<"a", "_", "b">>, <<"z">> }
LookupIds == { NoneId, 0, 1, 2, 4 }
Hints == { "", "vmess", "vless" }

\* the record of a call that only reads
ReadRecord(op, a, nList) ==
    [NoCall EXCEPT !.op = op, !.ok = a.ok, !.nLogin = a.sent,
                   !.nList = nList]

\* find_user_by_username(email, inbound_id)
FindByEmail ==
    \E email \in LookupEmails, inbound_id \in LookupIds,
       script \in ScriptsFor(authenticated), answered \in BOOLEAN :
    \E a \in {_ensure_authenticated(authenticated, script)} :
    \E found \in {IF a.ok
                      THEN find_user_by_username(panel, email, inbound_id,
                                                 answered)
                  ELSE NoneVal} :
        /\ authenticated' = a.auth
        /\ last' = [ReadRecord("find", a,
                               IF a.ok /\ LookupSends(inbound_id)
                                   THEN 1 ELSE 0)
                       EXCEPT !.email = email, !.inb = inbound_id,
                              !.arg = IF answered THEN "answered"
                                      ELSE "unanswered",
                              !.found = found]
        /\ UNCHANGED <<cfg, panel, nextSub, issued, pc, call, user_data>>

\* get_all_user_subscriptions(telegram_user_id, username)
ListByOwner ==
    \E who \in Identities, script \in ScriptsFor(authenticated),
       answered \in BOOLEAN :
    \E a \in {_ensure_authenticated(authenticated, script)} :
    \E subs \in {IF a.ok
                     THEN get_all_user_subscriptions(panel, who.id,
                                                     who.username, answered)
                 ELSE <<>>} :
        /\ authenticated' = a.auth
        /\ last' = [ReadRecord("list", a,
                               IF a.ok /\ DefaultInboundUsable THEN 1 ELSE 0)
                       EXCEPT !.tg = who.id, !.username = who.username,
                              !.arg = IF answered THEN "answered"
                                      ELSE "unanswered",
                              !.subs = subs]
        /\ UNCHANGED <<cfg, panel, nextSub, issued, pc, call, user_data>>

\* _get_existing_inbound(protocol)
ResolveInbound ==
    \E protocol \in Hints, script \in ScriptsFor(authenticated),
       answered \in BOOLEAN :
    \E a \in {_ensure_authenticated(authenticated, script)} :
    \E found \in {IF a.ok
                      THEN _get_existing_inbound(panel, protocol, answered)
                  ELSE NoneVal} :
        /\ authenticated' = a.auth
        /\ last' = [ReadRecord("resolve", a, IF a.ok THEN 1 ELSE 0)
                       EXCEPT !.arg = protocol, !.found = found]
        /\ UNCHANGED <<cfg, panel, nextSub, issued, pc, call, user_data>>

\* get_inbound_clients(inbound_id)
GetById ==
    \E inbound_id \in LookupIds \ {NoneId},
       script \in ScriptsFor(authenticated), answered \in BOOLEAN :
    \E a \in {_ensure_authenticated(authenticated, script)} :
    \E found \in {IF a.ok
                      THEN get_inbound_clients(panel, inbound_id, answered)
                  ELSE NoneVal} :
        /\ authenticated' = a.auth
        /\ last' = [ReadRecord("get", a, IF a.ok THEN 1 ELSE 0)
                       EXCEPT !.inb = inbound_id, !.found = found]
        /\ UNCHANGED <<cfg, panel, nextSub, issued, pc, call, user_data>>

\* _login(), whatever the session is
Authenticate ==
    \E script \in LoginScripts :
    \E r \in {_login(script)} :
        /\ authenticated' = (authenticated \/ r.ok)
        /\ last' = [NoCall EXCEPT !.op = "login", !.ok = r.ok,
                                  !.nLogin = r.sent]
        /\ UNCHANGED <<cfg, panel, nextSub, issued, pc, call, user_data>>

CreateAny == CreateWith(Creators, Devices, {{}, {1}})

InitOps ==
    /\ cfg \in {Config(1, "vmess"), Config(NoneId, "vless")}
    /\ authenticated = FALSE
    /\ panel \in {PanelWith(<<>>), PanelWith(TwoDeviceClients),
                  PanelWith(MixedClients)}
    /\ nextSub = 0
    /\ last = NoCall
    /\ issued = {}
    /\ pc = <<>>
    /\ user_data = <<>>
    /\ call = <<>>

NextOps ==
    \/ CreateAny
    \/ FindByEmail
    \/ ListByOwner
    \/ ResolveInbound
    \/ GetById
    \/ Authenticate

SpecOps == InitOps /\ [][NextOps]_vars

IsPrefix(s, t) == Len(s) <= Len(t) /\ SubSeq(t, 1, Len(s)) = s

RECURSIVE Sum(_, _)
Sum(f, n) == IF n = 0 THEN 0 ELSE f[n] + Sum(f, n - 1)

\* the number of accounts the step added to the panel
Added ==
    Sum([i \in 1..Len(panel) |->
            Len(panel'[i].clients) - Len(panel[i].clients)], Len(panel))

\* C10: no operation deletes or changes an account of the panel; the only
\* change to the accounts is createAccount appending at most one account
\* to exactly one inbound.
C10_CreateOnlyAppends ==
    [][ /\ Len(panel') = Len(panel)
        /\ \A i \in 1..Len(panel) :
               /\ panel'[i].id = panel[i].id
               /\ panel'[i].protocol = panel[i].protocol
               /\ panel'[i].enable = panel[i].enable
               /\ IsPrefix(panel[i].clients, panel'[i].clients)
        /\ Added <= 1
        /\ Added = 1 => /\ IsCreate(last') /\ last'.path = "created"
                        /\ Len(ClientsOf(panel', last'.target))
                               = Len(ClientsOf(panel, last'.target)) + 1
        /\ ~IsCreate(last') => panel' = panel ]_vars

\* a call that appended an account to an inbound that had accounts
C10_Witness ==
    /\ IsCreate(last) /\ last.path = "created"
    /\ Len(ClientsOf(panel, last.target)) > Len(TwoDeviceClients)
    /\ IsPrefix(TwoDeviceClients, ClientsOf(panel, last.target))

----------------------------------------------------------------------------
(* Two createAccount calls of one identity that nothing serializes: each
   call is split where create_user has chosen the email and the inbound
   (line 245) and has not yet sent the add-client request (line 289) *)

Callers == {1, 2}

NoPending ==
    [pre |-> Prepared(TRUE, NoneResult, "", <<>>, NoneId, FALSE, 0, 0, 0),
     device |-> <<>>, F |-> {}, seen |-> <<>>]

\* the first login candidate accepts or refuses the connection
ShortScripts ==
    { Script(Answer("404", "other"), 1, fin) :
        fin \in {Answer("ok200", "other"), Answer("refused", "other")} }

\* create_user up to line 245, reading the panel as it is now
CheckStep(c) ==
    /\ pc[c] = "idle"
    /\ \E device_name \in Devices,
          script \in ScriptsFor(authenticated) \cap (ShortScripts \cup {NoScript}),
          F \in {{}, {1}} :
       \E pre \in {Prepare(panel, authenticated, Alice.username, device_name,
                           script, F)} :
          /\ authenticated' = pre.auth
          /\ IF pre.stop
                 THEN /\ last' = CreateRecord(
                                     Alice, device_name,
                                     Finish(pre, panel, nextSub, Alice.id,
                                            Alice.username, "ok", F),
                                     panel, F, "ok")
                      /\ UNCHANGED <<pc, call>>
             ELSE /\ pc' = [pc EXCEPT ![c] = "checked"]
                  /\ call' = [call EXCEPT ![c] =
                                 [pre |-> pre, device |-> device_name,
                                  F |-> F, seen |-> panel]]
                  /\ UNCHANGED last
          /\ UNCHANGED <<cfg, panel, nextSub, issued, user_data>>

\* create_user from line 247 on, with the panel as it is by now
AddStep(c) ==
    /\ pc[c] = "checked"
    /\ \E ar \in AddResponses :
       \E out \in {Finish(call[c].pre, panel, nextSub, Alice.id,
                          Alice.username, ar, call[c].F)} :
       \E rec \in {CreateRecord(Alice, call[c].device, out, call[c].seen,
                                call[c].F, ar)} :
          /\ out.path = "created" => /\ nextSub < MaxAccounts
                                     /\ out.target \in PanelIds(panel)
          /\ panel' = out.panel
          /\ nextSub' = IF out.path = "created" THEN nextSub + 1 ELSE nextSub
          /\ issued' = IF out.path = "created"
                           THEN issued \cup {IssuedRecord(rec)}
                       ELSE issued
          /\ last' = [rec EXCEPT
                         !.taken = out.nAdd > 0
                             /\ out.email \in EmailsOf(panel, out.target),
                         !.takenKeyed = out.nAdd > 0
                             /\ out.email \in KeyedEmailsOf(panel, out.target)]
          /\ pc' = [pc EXCEPT ![c] = "idle"]
          /\ call' = [call EXCEPT ![c] = NoPending]
          /\ UNCHANGED <<cfg, authenticated, user_data>>

InitConc ==
    /\ cfg \in {Config(1, "vmess"), Config(NoneId, "vless")}
    /\ authenticated = FALSE
    /\ panel = PanelWith(<<>>)
    /\ nextSub = 0
    /\ last = NoCall
    /\ issued = {}
    /\ pc = [c \in Callers |-> "idle"]
    /\ user_data = <<>>
    /\ call = [c \in Callers |-> NoPending]

NextConc == \E c \in Callers : CheckStep(c) \/ AddStep(c)

SpecConc == InitConc /\ [][NextConc]_vars

\* C3: nothing lies between the existence check and the add-client request
\* of a createAccount call: a call that passed the check submits the email
\* it chose then, whatever the panel holds by now, so that two interleaved
\* calls for the same identity and device can both pass the check before
\* either creates and both submit the same email.
C3_SubmitsWithoutRecheck ==
    [][ \A c \in Callers :
            (pc[c] = "checked" /\ pc'[c] = "idle")
                => /\ last'.nAdd = 1
                   /\ last'.email = call[c].pre.email
                   /\ last'.target = call[c].pre.target ]_vars

\* two calls for one device both looked the email up, both were answered
\* that no account has it, and both created an account under it
C3_Witness ==
    /\ last.path = "created" /\ last.checked /\ last.fresh /\ last.taken
    /\ \E r1, r2 \in issued :
           /\ r1.sub_id # r2.sub_id
           /\ r1.tg = r2.tg /\ r1.device = r2.device
           /\ r1.email = r2.email
           /\ r1.checked /\ r1.fresh
           /\ r2.checked /\ r2.fresh

----------------------------------------------------------------------------
(* Claims about the lookups, checked under SpecOps *)

\* some inbound of the panel holds the account of the record, tagged with
\* the decimal text of the caller's id
HoldsTagged(r) ==
    \E i \in 1..Len(panel) : \E k \in 1..Len(panel[i].clients) :
        /\ panel[i].clients[k].subId = r.sub_id
        /\ panel[i].clients[k].email = r.email
        /\ panel[i].clients[k].tgId = OwnerTag(r.tg)

\* listByOwner(id of the caller), answered, has the subId and the URL the
\* call returned
Listed(r) ==
    LET subs == get_all_user_subscriptions(panel, r.tg, <<>>, TRUE)
    IN  \E k \in 1..Len(subs) : /\ subs[k].sub_id = r.sub_id
                                /\ subs[k].subscription_url = r.url

KeptFor(telegram_user_id) ==
    SelectSeq(ClientsOf(panel, cfg.inbound),
              LAMBDA c : c.tgId = OwnerTag(telegram_user_id) /\ c.subId # "")

\* a listByOwner call that opened the session, reads a configured inbound
\* and was answered
ListRead(rec) ==
    /\ rec.op = "list" /\ rec.ok /\ rec.arg = "answered"
    /\ DefaultInboundUsable

\* C12: listByOwner returns exactly the records of the default inbound whose
\* ownerTag is the text of ownerId and whose subId is not empty, one
\* Subscription for each, in the order of the inbound's client list.
C12_ListIsFilteredInOrder ==
    ListRead(last)
        => /\ Len(last.subs) = Len(KeptFor(last.tg))
           /\ \A k \in 1..Len(last.subs) :
                  /\ last.subs[k].email = KeptFor(last.tg)[k].email
                  /\ last.subs[k].sub_id = KeptFor(last.tg)[k].subId
                  /\ last.subs[k].subscription_url
                         = _get_subscription_url(KeptFor(last.tg)[k].subId)

\* a list of two records, read from an inbound that also has a record of
\* another owner and a record of this owner without subId
C12_Witness ==
    /\ ListRead(last) /\ Len(last.subs) = 2
    /\ \E k \in 1..Len(ClientsOf(panel, cfg.inbound)) :
           ClientsOf(panel, cfg.inbound)[k].tgId # OwnerTag(last.tg)
    /\ \E k \in 1..Len(ClientsOf(panel, cfg.inbound)) :
           /\ ClientsOf(panel, cfg.inbound)[k].tgId = OwnerTag(last.tg)
           /\ ClientsOf(panel, cfg.inbound)[k].subId = ""

\* a findByEmail call that opened the session, was given or has configured
\* an inbound id other than 0, and was answered
FindRead(rec) ==
    /\ rec.op = "find" /\ rec.ok /\ rec.arg = "answered"
    /\ LookupSends(rec.inb)

\* the clients of the inbound the call looks in
LookedIn(rec) == ClientsOf(panel, check_inbound_id(rec.inb))

\* the call returned the k-th client of the inbound it looks in
ReturnedClient(rec, k) ==
    /\ IsSome(rec.found)
    /\ The(rec.found).username = rec.email
    /\ The(rec.found).sub_id = LookedIn(rec)[k].subId
    /\ The(rec.found).subscription_url
           = _get_subscription_url(LookedIn(rec)[k].subId)
    /\ The(rec.found).inbound_id = check_inbound_id(rec.inb)

\* the call returned the first of the clients at the indices hits, or None
\* if there is none
ReturnedFirstOf(rec, hits) ==
    IF hits = {} THEN rec.found = NoneVal
    ELSE \E k \in hits : /\ \A j \in hits : k <= j
                         /\ ReturnedClient(rec, k)

----------------------------------------------------------------------------
(* URL derivation, over the shapes of the admin base URL and the overrides *)

\* XUI_URL as written in the environment
BaseUrls ==
    { <<"https://", "panel.example.com">>,
      <<"https://", "panel.example.com", ":", "54321">>,
      <<"https://", "panel.example.com", "/", "admin">>,
      <<"https://", "panel.example.com", ":", "54321", "/", "admin">>,
      <<"https://", "panel.example.com", "/", "a", ":", "b">>,
      <<"https://", "panel.example.com", ":", "54321", "/", "a", ":", "b">>,
      <<"https://", "panel.example.com", "/", "a", "/", "b">>,
      <<"http://", "10.0.0.1", ":", "54321", "/", "admin", "/">>,
      <<"panel.example.com", ":", "54321">> }

HostOverrides == { "", "1.2.3.4:2096" }
PortOverrides == { "", "2096", "8443" }
SubIds == { "Ab12_-xyz", "s1" }

UrlConfig(base, host, port) ==
    [Config(NoneId, "vmess") EXCEPT
        !.base = RStripSlash(base), !.subHost = host, !.subPort = port]

InitUrl ==
    /\ cfg \in { UrlConfig(base, host, port) :
                     base \in BaseUrls, host \in HostOverrides,
                     port \in PortOverrides }
    /\ authenticated = FALSE
    /\ panel = PanelWith(<<>>)
    /\ nextSub = 0
    /\ last = NoCall
    /\ issued = {}
    /\ pc = <<>>
    /\ user_data = <<>>
    /\ call = <<>>

\* _get_subscription_url(sub_id)
DeriveUrl ==
    \E sub_id \in SubIds :
        /\ last' = [NoCall EXCEPT
                       !.op = "url", !.arg = sub_id,
                       !.subs = UrlParts(cfg, sub_id),
                       !.result = [NoneResult EXCEPT
                                      !.isNone = FALSE,
                                      !.subscription_url =
                                          _get_subscription_url(sub_id)]]
        /\ UNCHANGED <<cfg, authenticated, panel, nextSub, issued, pc, call,
                       user_data>>

NextUrl == DeriveUrl

SpecUrl == InitUrl /\ [][NextUrl]_vars

\* a URL in pieces: what follows the scheme up to the first "/", and the
\* rest
AuthorityOf(url) == BeforeFirst(Tail(url), "/")
PathOf(url) == SubSeq(url, Len(AuthorityOf(url)) + 2, Len(url))

EndsWith(s, suffix) ==
    /\ Len(s) >= Len(suffix)
    /\ SubSeq(s, Len(s) - Len(suffix) + 1, Len(s)) = suffix

\* C14: the URL is https://{override_host}/sub/{subId} when a host override
\* is configured, whatever the port override and the base URL; otherwise
\* https://{host}:{override_port}/sub/{subId} when a port override is
\* configured; otherwise https://{host}:2096/sub/{subId}; in all three
\* cases the scheme is https and the path is exactly /sub/{subId}.
C14_UrlShape ==
    last.op = "url"
        => /\ Head(last.subs) = "https://"
           /\ PathOf(last.subs) = <<"/", "sub", "/", last.arg>>
           /\ last.result.subscription_url = Join(last.subs)
           /\ IF cfg.subHost # ""
                  THEN AuthorityOf(last.subs) = <<cfg.subHost>>
              ELSE IF cfg.subPort # ""
                  THEN EndsWith(AuthorityOf(last.subs), <<":", cfg.subPort>>)
              ELSE EndsWith(AuthorityOf(last.subs), <<":", "2096">>)

\* the base URL without its scheme, its port and its path
HostOf(base) ==
    LET b == StripScheme(base)
    IN  IF b = <<>> THEN <<>> ELSE <<Head(b)>>

\* C15: in rules (b) and (c) the host of the URL is the admin base URL
\* with scheme, port and path removed, and both rules derive the same
\* host from the same base URL, whatever its shape.
C15_SameHostInBothRules ==
    (last.op = "url" /\ cfg.subHost = "")
        => /\ PortRuleHost(cfg.base) = HostOf(cfg.base)
           /\ FallbackRuleHost(cfg.base) = HostOf(cfg.base)
           /\ last.subs = <<"https://">> \o HostOf(cfg.base)
                  \o <<":", IF cfg.subPort # "" THEN cfg.subPort ELSE "2096",
                       "/", "sub", "/", last.arg>>

----------------------------------------------------------------------------
(* Logging in: _login and _ensure_authenticated against a panel whose four
   candidate paths answer in every way the code tells apart *)

\* the answers one candidate can give: the form answer is read only after a
\* JSON status other than 200 and 404
CandidateAnswers ==
    { Answer(j, "other") :
        j \in {"ok200", "fail200", "nonjson200", "404", "timeout",
               "refused", "error"} }
    \cup { Answer("other", f) :
             f \in {"200", "fail200", "other", "timeout", "refused"} }

AllScripts == [1..Len(login_endpoints) -> CandidateAnswers]

\* panel holds the answers of the login candidates
InitLogin ==
    /\ cfg = Config(1, "vmess")
    /\ authenticated = FALSE
    /\ panel \in AllScripts
    /\ nextSub = 1
    /\ last = NoCall
    /\ issued = {}
    /\ pc = <<>>
    /\ user_data = <<>>
    /\ call = <<>>

LoginRecord(op, ok, requests) ==
    [NoCall EXCEPT !.op = op, !.ok = ok, !.nLogin = Len(requests),
                   !.requests = requests]

\* one run of _login(); the flag is only ever set, never cleared
Login ==
    \E r \in {_login(panel)} :
        /\ authenticated' = (authenticated \/ r.ok)
        /\ last' = LoginRecord("login", r.ok, r.requests)
        /\ UNCHANGED <<cfg, panel, nextSub, issued, pc, call, user_data>>

\* one call of _ensure_authenticated()
EnsureAuthenticated ==
    \E a \in {_ensure_authenticated(authenticated, panel)} :
        /\ authenticated' = a.auth
        /\ last' = LoginRecord("ensure", a.ok, a.requests)
        /\ UNCHANGED <<cfg, panel, nextSub, issued, pc, call, user_data>>

NextLogin == Login \/ EnsureAuthenticated

SpecLogin == InitLogin /\ [][NextLogin]_vars

\* what the panel answered to the n-th request of the last call
AnswerTo(n) ==
    LET q == last.requests[n]
    IN  IF q.body = "json" THEN panel[q.candidate].json
        ELSE panel[q.candidate].form

IsLast(n) == n = Len(last.requests)

RanLogin == last.op = "login" /\ last.nLogin = Len(last.requests)

\* the JSON answers that authenticate
JsonSuccess == {"ok200", "nonjson200"}

\* C16: authenticate() stops at the first candidate whose JSON login
\* returns 200 with the success flag set, or 200 with a body that is not
\* JSON: that request is the last one sent, the run returns Success and
\* the session is authenticated; when the candidates answer 404, 404 and
\* 200-with-success in that order, exactly three login requests are sent,
\* one to each of the first three candidates.
C16_StopsAtFirstSuccess ==
    RanLogin =>
        /\ \A n \in 1..Len(last.requests) :
               (last.requests[n].body = "json" /\ AnswerTo(n) \in JsonSuccess)
                   => (IsLast(n) /\ last.ok /\ authenticated)
        /\ (panel[1].json = "404" /\ panel[2].json = "404"
                /\ panel[3].json = "ok200")
               => /\ last.ok
                  /\ last.requests = <<Request(1, "json"), Request(2, "json"),
                                       Request(3, "json")>>

C16_Witness ==
    /\ RanLogin
    /\ panel[1].json = "404" /\ panel[2].json = "404"
    /\ panel[3].json = "ok200"
    /\ last.ok /\ last.nLogin = 3 /\ authenticated

\* the positions in the requests of the last call of those sent to
\* candidate i with the given body
SentTo(i, body) ==
    { n \in 1..Len(last.requests) : last.requests[n] = Request(i, body) }

\* C17: for each login candidate authenticate() sends at most two requests,
\* the JSON request and one form-encoded retry, the retry only after a JSON
\* response with a status that is neither 200 nor 404, and never after a
\* 404; the candidates are tried once each in their order, so that one run
\* sends at most 8 login requests and ends with Success or Failure.
C17_AtMostTwoPerCandidate ==
    RanLogin =>
        /\ \A i \in 1..Len(login_endpoints) :
               /\ Cardinality(SentTo(i, "json")) <= 1
               /\ Cardinality(SentTo(i, "form")) <= 1
               /\ SentTo(i, "form") # {}
                      => /\ panel[i].json = "other"
                         /\ \E n \in SentTo(i, "json") :
                                n + 1 \in SentTo(i, "form")
               /\ panel[i].json = "404" => SentTo(i, "form") = {}
        /\ \A n \in 1..Len(last.requests) :
               /\ last.requests[n].candidate \in 1..Len(login_endpoints)
               /\ last.requests[n].body \in {"json", "form"}
               /\ n > 1 => last.requests[n - 1].candidate
                               <= last.requests[n].candidate
        /\ Len(login_endpoints) = 4
        /\ last.nLogin <= 8
        /\ last.ok \in BOOLEAN
        /\ last.ok => authenticated

\* a run that sends all 8 requests, and fails
C17_Witness ==
    /\ RanLogin
    /\ last.nLogin = 8
    /\ ~last.ok
    /\ \A i \in 1..Len(login_endpoints) : SentTo(i, "form") # {}

\* every request of the last call that met a connection refusal was its
\* last one, and the call returned Failure
RefusalAborts ==
    \A n \in 1..Len(last.requests) :
        AnswerTo(n) = "refused" => (IsLast(n) /\ ~last.ok)

\* after every request of the last call that timed out, the JSON request to
\* the next candidate was sent, if there is a next candidate
TimeoutMovesOn ==
    \A n \in 1..Len(last.requests) :
        AnswerTo(n) = "timeout"
            => IF last.requests[n].candidate < Len(login_endpoints)
                   THEN /\ n < Len(last.requests)
                        /\ last.requests[n + 1]
                               = Request(last.requests[n].candidate + 1, "json")
               ELSE IsLast(n) /\ ~last.ok

Refused == \E n \in 1..Len(last.requests) : AnswerTo(n) = "refused"
TimedOut == \E n \in 1..Len(last.requests) : AnswerTo(n) = "timeout"

\* C18: a connection refusal on any login candidate ends authenticate()
\* with Failure at that request, no further candidate being tried, and
\* leaves the session flag as it was (unauthenticated); a timeout on a
\* candidate makes the run go on with the JSON request to the next
\* candidate, and the run authenticates the session if a later candidate
\* accepts the login.
C18_RefusalAbortsTimeoutMovesOn ==
    [][RanLogin' =>
          /\ RefusalAborts'
          /\ Refused' => (authenticated' = authenticated)
          /\ TimeoutMovesOn'
          /\ (TimedOut' /\ last'.ok) => authenticated'
      ]_vars

\* the first candidate timed out, the second was tried and refused the
\* connection: the run failed there although the third candidate would
\* have accepted the login
C18_Witness ==
    /\ RanLogin
    /\ panel[1].json = "timeout" /\ panel[2].json = "refused"
    /\ panel[3].json = "ok200"
    /\ last.requests = <<Request(1, "json"), Request(2, "json")>>
    /\ ~last.ok /\ ~authenticated

\* a run in which a candidate timed out and a later one authenticated
TimeoutThenSuccess ==
    /\ RanLogin /\ TimedOut /\ last.ok /\ authenticated

\* C19: ensureAuthenticated() on an authenticated session sends no request,
\* returns success and leaves the session authenticated, however many
\* times it is called; on a session that is not authenticated it sends the
\* requests of exactly one authenticate() run, returns the result of that
\* run, and the session is authenticated exactly when the run succeeded.
C19_EnsureIsIdempotent ==
    [][last'.op = "ensure" =>
          IF authenticated
              THEN /\ last'.requests = <<>> /\ last'.nLogin = 0
                   /\ last'.ok
                   /\ authenticated'
          ELSE /\ last'.requests = _login(panel).requests
               /\ last'.nLogin = _login(panel).sent
               /\ last'.nLogin >= 1
               /\ last'.ok = _login(panel).ok
               /\ authenticated' = last'.ok
      ]_vars

\* a call on an authenticated session: a call that logs in sends at least
\* one request
C19_Witness ==
    /\ last.op = "ensure"
    /\ last.requests = <<>> /\ last.nLogin = 0
    /\ last.ok /\ authenticated

\* the operations that go through _ensure_authenticated
SessionOps == {"create", "find", "list", "resolve", "get"}

\* what the last call returned is the failure its operation returns when a
\* request of its own is not answered or is rejected
OrdinaryFailure ==
    /\ (last.op \in {"find", "list"} /\ last.arg = "unanswered")
           => (last.found = NoneVal /\ last.subs = <<>>)
    /\ (last.op = "create" /\ last.nAdd > 0 /\ ~last.result.success)
           => (last.result.isNone \/ last.result.error # "")

\* C20: once the session is authenticated no operation sends a login
\* request: every later call of an operation sends none and leaves the
\* session authenticated, also when its listing request is not answered or
\* its add-client request is rejected, which it reports as its ordinary
\* failure; this holds for every following call alike.
C20_NoLoginOnceAuthenticated ==
    [][(authenticated /\ last'.op \in SessionOps) =>
          /\ last'.nLogin = 0
          /\ authenticated'
          /\ OrdinaryFailure'
      ]_vars

\* a listing on an authenticated session whose request was not answered:
\* the accounts of the owner are on the panel, the call returned the empty
\* list and sent no login request (a call that logs in sends at least one)
C20_Witness ==
    /\ last.op = "list" /\ last.arg = "unanswered"
    /\ last.nList = 1 /\ last.nLogin = 0 /\ last.ok
    /\ last.subs = <<>>
    /\ KeptFor(last.tg) # <<>>
    /\ authenticated

----------------------------------------------------------------------------
(* Resolving an inbound from any list of inbounds *)

Protocols == {"vless", "vmess", "trojan"}

\* the inbound lists of up to MaxInbounds inbounds, ids in list order
InboundLists ==
    UNION { [1..n -> [protocol : Protocols, enable : BOOLEAN]] :
              n \in 0..MaxInbounds }

ListedPanel(l) ==
    [k \in 1..Len(l) |-> Inbound(k, l[k].protocol, l[k].enable, <<>>)]

InitInbounds ==
    /\ cfg = Config(NoneId, "vless")
    /\ authenticated = FALSE
    /\ panel \in { ListedPanel(l) : l \in InboundLists }
    /\ nextSub = 0
    /\ last = NoCall
    /\ issued = {}
    /\ pc = <<>>
    /\ user_data = <<>>
    /\ call = <<>>

\* _get_existing_inbound(protocol), recording whether its listing request
\* was answered
ResolveListed ==
    \E protocol \in Hints, script \in ScriptsFor(authenticated),
       answered \in BOOLEAN :
    \E a \in {_ensure_authenticated(authenticated, script)} :
    \E found \in {IF a.ok
                      THEN _get_existing_inbound(panel, protocol, answered)
                  ELSE NoneVal} :
        /\ authenticated' = a.auth
        /\ last' = [ReadRecord("resolve", a, IF a.ok THEN 1 ELSE 0)
                       EXCEPT !.arg = protocol, !.found = found,
                              !.resolveAnswered = a.ok /\ answered]
        /\ UNCHANGED <<cfg, panel, nextSub, issued, pc, call, user_data>>

NextInbounds == ResolveListed

SpecInbounds == InitInbounds /\ [][NextInbounds]_vars

\* the inbound at position k is enabled and has the protocol of the hint of
\* the last call, if a hint was given
Qualifying(k) ==
    /\ panel[k].enable
    /\ last.arg # "" => panel[k].protocol = last.arg

ResolvedFromList == last.op = "resolve" /\ last.resolveAnswered

----------------------------------------------------------------------------
(* Failures of a listing *)

\* the last call was a listing that failed: the login failed, no default
\* inbound is configured, or the listing request was not answered
ListFailed ==
    /\ last.op = "list"
    /\ \/ ~last.ok
       \/ ~DefaultInboundUsable
       \/ last.arg = "unanswered"

\* what listByOwner returns for an owner without accounts
NoAccounts == <<>>

\* C22: a listing that failed (authentication failure, failed inbound
\* listing, no default inbound) returns a result that differs from the
\* result for an owner that has no accounts.
C22_ListFailureIsReported ==
    ListFailed => last.subs # NoAccounts

----------------------------------------------------------------------------
(* The device labels of a listing *)

LabelEmails ==
    { <<"a">>, <<"a", "_">>, <<"a", "_", "b">>, <<"a", "b">>, <<"z">>,
      <<"a", "_", "b", "_", "2">> }

\* accounts with a subId, of the owners 1 and 3
LabelClients ==
    { [email |-> e, subId |-> "k", tgId |-> t] :
        e \in LabelEmails, t \in {"1", "3"} }

InitLabels ==
    /\ cfg = Config(1, "vmess")
    /\ authenticated = FALSE
    /\ panel \in { PanelWith(cs) :
                     cs \in UNION { [1..n -> LabelClients] : n \in 1..2 } }
    /\ nextSub = 0
    /\ last = NoCall
    /\ issued = {}
    /\ pc = <<>>
    /\ user_data = <<>>
    /\ call = <<>>

NextLabels == ListByOwner

SpecLabels == InitLabels /\ [][NextLabels]_vars

\* what is left of an email after the user name and the "_"
Remainder(email, base) == SubSeq(email, Len(base) + 2, Len(email))

HasDevicePrefix(email, base) ==
    base # <<>> /\ email # base /\ StartsWith(email, base \o <<"_">>)

\* C23 as stated: the label of a kept record is the primary-device label
\* when its email is the base user name, the remainder of the email after
\* the user name and "_" when the email starts with these, and the raw
\* email otherwise, also when no base user name is given.
C23_LabelOfRecord ==
    last.op = "list" =>
        \A n \in 1..Len(last.subs) :
            LET email == last.subs[n].email
                label == last.subs[n].device_name
            IN  IF last.username # <<>> /\ email = last.username
                    THEN label = PrimaryDeviceLabel
                ELSE IF HasDevicePrefix(email, last.username)
                    THEN label = Remainder(email, last.username)
                ELSE label = email

\* C23: the label of a kept record is the primary-device label when its
\* email is the base user name; the remainder of the email after the user
\* name and "_" when the email starts with these and something is left;
\* the raw email otherwise: when nothing is left after the "_", when the
\* email does not start so, and when no base user name is given.
C23_LabelOfRecordOrEmail ==
    last.op = "list" =>
        \A n \in 1..Len(last.subs) :
            LET email == last.subs[n].email
                label == last.subs[n].device_name
            IN  IF last.username # <<>> /\ email = last.username
                    THEN label = PrimaryDeviceLabel
                ELSE IF HasDevicePrefix(email, last.username)
                        /\ Remainder(email, last.username) # <<>>
                    THEN label = Remainder(email, last.username)
                ELSE label = email

\* a listing for the user name a that kept the email a_, labelled a_, and
\* the email a_b, labelled b
C23_Witness ==
    /\ last.op = "list" /\ last.username = <<"a">>
    /\ Len(last.subs) = 2
    /\ last.subs[1].email = <<"a", "_">>
    /\ last.subs[1].device_name = <<"a", "_">>
    /\ last.subs[2].email = <<"a", "_", "b">>
    /\ last.subs[2].device_name = <<"b">>

----------------------------------------------------------------------------
(* Two identities, the user name of one being a device email of the other *)

Bob == [id |-> 2, username |-> DeviceEmail(Alice.username, <<"b">>)]

InitOwners ==
    /\ cfg = Config(1, "vmess")
    /\ authenticated = FALSE
    /\ panel = PanelWith(<<>>)
    /\ nextSub = 0
    /\ last = NoCall
    /\ issued = {}
    /\ pc = <<>>
    /\ user_data = <<>>
    /\ call = <<>>

CreateByOwners == CreateWith({Alice, Bob}, Devices, {{}})

NextOwners == CreateByOwners

SpecOwners == InitOwners /\ [][NextOwners]_vars

\* the owner tags of the accounts of the panel whose subscription URL is url
OwnerTagsOf(url) ==
    UNION { { ClientsOf(panel, id)[k].tgId :
                k \in { j \in 1..Len(ClientsOf(panel, id)) :
                          /\ ClientsOf(panel, id)[j].subId # ""
                          /\ _get_subscription_url(
                                 ClientsOf(panel, id)[j].subId) = url } } :
            id \in PanelIds(panel) }

\* C24: a subscription URL returned by createAccount, in Created or in
\* AlreadyExists, is the URL of accounts tagged with the id of the calling
\* identity only.
C24_ReturnsOwnUrlOnly ==
    (IsCreate(last) /\ last.result.subscription_url # "")
        => OwnerTagsOf(last.result.subscription_url) \subseteq {OwnerTag(last.tg)}

----------------------------------------------------------------------------
(* What authenticates a session *)

\* the answers with status 200 whose body does not report a failure
AcceptingAnswers == {"ok200", "nonjson200", "200"}

\* C25: authenticate() returns Success only on a response with status 200
\* whose body does not carry success=false: the run that returns Success
\* ends with such a response, and a response that reports failure, to the
\* JSON request or to the form-encoded retry, is never the one that
\* authenticates the session.
C25_FailureNeverAuthenticates ==
    (RanLogin /\ last.ok)
        => /\ last.requests # <<>>
           /\ AnswerTo(Len(last.requests)) \in AcceptingAnswers
           /\ \A n \in 1..Len(last.requests) :
                  AnswerTo(n) = "fail200" => ~IsLast(n)

----------------------------------------------------------------------------
(* The session flag under all operations *)

\* the operations that record what _ensure_authenticated returned
ReadingOps == {"find", "list", "resolve", "get"}

\* C26: the session flag starts false; no operation resets it; it becomes
\* true only in a step in which a login run was made and returned Success;
\* a login run that returns Failure leaves the flag as it was, and a login
\* run returns Success exactly when it has set the flag.
C26_FlagFollowsLogin ==
    /\ ~authenticated
    /\ [][/\ authenticated => authenticated'
          /\ (~authenticated /\ authenticated')
                 => /\ last'.nLogin >= 1
                    /\ last'.op \in ReadingOps \cup {"login"} => last'.ok
          /\ (last'.op = "login" /\ last'.ok) => authenticated'
          /\ (last'.op = "login" /\ ~last'.ok)
                 => (authenticated' = authenticated)
          /\ (~authenticated /\ last'.op \in ReadingOps \cup {"login"})
                 => (authenticated' = last'.ok)
       ]_vars

\* a login run that failed on a session an earlier run had authenticated
C26_Witness ==
    /\ last.op = "login" /\ ~last.ok /\ last.nLogin >= 1
    /\ authenticated

\* the last call was an operation whose login failed
AuthFailed ==
    \/ last.op \in ReadingOps /\ ~last.ok
    \/ last.op = "create" /\ last.path = "auth_failed"

\* C27: resolveInbound, getById, findByEmail, listByOwner and createAccount
\* send an inbound-listing or add-client request only in a call that ends
\* with the session authenticated; a call whose login failed sent login
\* requests only and returned its failure value, None or the empty list.
C27_PanelRequestsNeedSession ==
    last.op \in SessionOps =>
        /\ (last.nList > 0 \/ last.nAdd > 0) => authenticated
        /\ AuthFailed
               => /\ last.nList = 0 /\ last.nAdd = 0 /\ last.nResolve = 0
                  /\ last.nLogin >= 1
                  /\ last.found = NoneVal /\ last.subs = <<>>
                  /\ last.op = "create" => last.result.isNone
                  /\ ~authenticated

\* a createAccount whose login failed
C27_Witness ==
    /\ last.op = "create" /\ last.path = "auth_failed"
    /\ last.username # <<>>
    /\ last.nLogin >= 1 /\ last.nList = 0 /\ last.nAdd = 0
    /\ last.result.isNone
    /\ ~authenticated

----------------------------------------------------------------------------
(* The conversation: the handlers of commands.py for one user, whose
   context.user_data holds device_name and waiting_for_device_name *)

\* user_data with neither key set; an absent device_name is <<>>
NoUserData == [device_name |-> <<>>, waiting_for_device_name |-> FALSE]

\* the user, with and without a Telegram user name
ChatUsers == { Alice, [Alice EXCEPT !.username = <<>>] }

\* the label of a device_name_{name} button
ButtonLabels == { <<"b">> }

Spaces(k) == [i \in 1..k |-> " "]
Letters(n) == [i \in 1..n |-> "x"]

\* the text messages: nothing, spaces only, and names of 1, MaxDeviceName
\* and MaxDeviceName + 1 characters with and without spaces around them
Texts ==
    { Spaces(k) \o Letters(n) \o Spaces(2 * k) :
        k \in {0, 1}, n \in {0, 1, MaxDeviceName, MaxDeviceName + 1} }

\* str.strip()
Strip(text) ==
    LET inked == { i \in 1..Len(text) : text[i] # " " }
    IN  IF inked = {} THEN <<>>
        ELSE SubSeq(text,
                    CHOOSE i \in inked : \A j \in inked : i <= j,
                    CHOOSE i \in inked : \A j \in inked : i >= j)

\* a variant that stores the text as it was typed
TextStoredAsTyped(ud, text) ==
    IF text = <<>> \/ ~ud.waiting_for_device_name THEN ud
    ELSE IF Len(Strip(text)) = 0 \/ Len(Strip(text)) > MaxDeviceName THEN ud
    ELSE [device_name |-> text, waiting_for_device_name |-> FALSE]

\* handle_text_message: user_data after the message
handle_text_message(ud, text) ==
    IF text = <<>> THEN ud
    ELSE IF ~ud.waiting_for_device_name THEN ud
    ELSE LET device_name == Strip(text)
         IN  IF Len(device_name) = 0 THEN ud
             ELSE IF Len(device_name) > MaxDeviceName THEN ud
             ELSE [device_name |-> device_name,
                   waiting_for_device_name |-> FALSE]

\* get_user_subscription, from the list get_all_user_subscriptions returned
get_user_subscription(all_subscriptions) ==
    IF all_subscriptions # <<>>
        THEN Some(all_subscriptions[1].subscription_url)
    ELSE NoneVal

\* what handle_generate_subscription did: the branch it took, the device
\* it passed to create_user, the list its lookup got, the URL it stored
Generated(path, device, subs, url, result, pnl, auth, nLogin, nList, nAdd) ==
    [path |-> path, device |-> device, subs |-> subs, url |-> url,
     result |-> result, panel |-> pnl, auth |-> auth, nLogin |-> nLogin,
     nList |-> nList, nAdd |-> nAdd]

\* the URL handle_generate_subscription stores from the result of
\* create_user (lines 251-259)
UrlToStore(result) ==
    IF result.isNone THEN ""
    ELSE IF result.success \/ result.error = "username_exists"
        THEN result.subscription_url
    ELSE ""

\* lines 244-295: the call of create_user and what is kept of its result;
\* subs, nLogin and nList are those of the lookup before it
CreateFor(pnl, auth, n, user, device_name, s2, F, ar, subs, nLogin, nList) ==
    CHOOSE g \in
        { Generated(out.path, device_name, subs, UrlToStore(out.result),
                    out.result, out.panel, out.auth, nLogin + out.nLogin,
                    nList + out.nList, out.nAdd) :
            out \in { create_user(pnl, auth, n, user.id, user.username,
                                  device_name, s2, F, ar) } } : TRUE

\* lines 237-244: the existing subscription is shown, or create_user called
ShowOrCreate(pnl, a, n, user, s2, F, ar, subs) ==
    IF IsSome(get_user_subscription(subs))
        THEN Generated("existing", <<>>, subs,
                       The(get_user_subscription(subs)), NoneResult, pnl,
                       a.auth, a.sent, 1, 0)
    ELSE CreateFor(pnl, a.auth, n, user, <<>>,
                   IF a.auth THEN NoScript ELSE s2, F, ar, subs, a.sent,
                   IF a.ok /\ DefaultInboundUsable THEN 1 ELSE 0)

\* lines 225-231: get_user_subscription for the primary device
LookThenCreate(pnl, a, n, user, s2, answered, F, ar) ==
    CHOOSE g \in
        { ShowOrCreate(pnl, a, n, user, s2, F, ar, subs) :
            subs \in { IF a.ok
                         THEN get_all_user_subscriptions(pnl, user.id,
                                                         user.username,
                                                         answered)
                       ELSE <<>> } } : TRUE

\* a variant that creates the account without looking for an existing one
GenerateUnchecked(pnl, auth, n, user, device_name, s1, s2, answered, F, ar) ==
    IF user.username = <<>>
        THEN Generated("no_username", <<>>, <<>>, "", NoneResult, pnl, auth,
                       0, 0, 0)
    ELSE CreateFor(pnl, auth, n, user, device_name, s2, F, ar, <<>>, 0, 0)

\* handle_generate_subscription, lines 205-295: s1 and s2 are the login
\* scripts of its two service calls, answered tells whether the listing of
\* its lookup is answered, F and ar are the faults and the add-client
\* answer of its create_user call
handle_generate_subscription(pnl, auth, n, user, device_name, s1, s2, answered, F, ar) ==
    IF user.username = <<>>
        THEN Generated("no_username", <<>>, <<>>, "", NoneResult, pnl, auth,
                       0, 0, 0)
    ELSE IF device_name # <<>>
        THEN CreateFor(pnl, auth, n, user, device_name, s2, F, ar, <<>>,
                       0, 0)
    ELSE CHOOSE g \in
            { LookThenCreate(pnl, a, n, user, s2, answered, F, ar) :
                a \in { _ensure_authenticated(auth, s1) } } : TRUE

\* the record of a handler that calls no service
EventRecord(op) == [NoCall EXCEPT !.op = op]

\* pc is the place of the user in the primary flow: "platform" after
\* get_vpn, "download" after the platform choice that follows it
InitChat ==
    /\ cfg = Config(1, "vmess")
    /\ authenticated = FALSE
    /\ panel = PanelWith(<<>>)
    /\ nextSub = 0
    /\ last = NoCall
    /\ issued = {}
    /\ pc = "idle"
    /\ call = <<>>
    /\ user_data = NoUserData

\* button get_vpn or /get_vpn
handle_device_selection ==
    /\ pc' = "platform"
    /\ last' = EventRecord("get_vpn")
    /\ UNCHANGED <<cfg, authenticated, panel, nextSub, issued, call,
                   user_data>>

\* buttons setup_iphone_mac, setup_android, setup_windows_linux
handle_setup ==
    /\ pc' = IF pc = "platform" THEN "download" ELSE "idle"
    /\ last' = EventRecord("setup")
    /\ UNCHANGED <<cfg, authenticated, panel, nextSub, issued, call,
                   user_data>>

\* button add_device
handle_add_device ==
    \E user \in ChatUsers :
        /\ user_data' = IF user.username = <<>> THEN user_data
                        ELSE [user_data EXCEPT !.device_name = <<>>]
        /\ pc' = "idle"
        /\ last' = [EventRecord("add_device") EXCEPT
                       !.username = user.username]
        /\ UNCHANGED <<cfg, authenticated, panel, nextSub, issued, call>>

\* buttons device_name_{name}
handle_device_name_selected ==
    \E device_name \in ButtonLabels :
        /\ user_data' = [user_data EXCEPT !.device_name = device_name]
        /\ pc' = "idle"
        /\ last' = [EventRecord("device_name") EXCEPT !.device = device_name]
        /\ UNCHANGED <<cfg, authenticated, panel, nextSub, issued, call>>

\* button enter_custom_device_name
handle_enter_custom_device_name ==
    /\ user_data' = [user_data EXCEPT !.waiting_for_device_name = TRUE]
    /\ pc' = "idle"
    /\ last' = EventRecord("enter_custom_device_name")
    /\ UNCHANGED <<cfg, authenticated, panel, nextSub, issued, call>>

\* a text message; last keeps the text
TextMessage ==
    \E text \in Texts :
        /\ user_data' = handle_text_message(user_data, text)
        /\ pc' = "idle"
        /\ last' = [EventRecord("text") EXCEPT !.device = text]
        /\ UNCHANGED <<cfg, authenticated, panel, nextSub, issued, call>>

ChatScripts(auth) == IF auth THEN {NoScript} ELSE ShortScripts

\* button app_downloaded: handle_app_downloaded calls
\* handle_generate_subscription; last.arg tells whether the button ended
\* the primary flow, last.ok whether the panel answers the login and the
\* listing of a lookup made now
AppDownloaded ==
    \E user \in ChatUsers, s1 \in ChatScripts(authenticated),
       s2 \in ChatScripts(authenticated), answered \in BOOLEAN,
       F \in {{}, {1}}, ar \in {"ok", "fail_exist"} :
    \E g \in {handle_generate_subscription(panel, authenticated, nextSub,
                                           user, user_data.device_name,
                                           s1, s2, answered, F, ar)} :
        /\ g.path = "created" => nextSub < MaxAccounts
        /\ authenticated' = g.auth
        /\ panel' = g.panel
        /\ nextSub' = IF g.path = "created" THEN nextSub + 1 ELSE nextSub
        /\ last' = [EventRecord("generate") EXCEPT
                       !.arg = IF pc = "download" THEN "primary" ELSE "other",
                       !.tg = user.id, !.username = user.username,
                       !.ok = answered /\
                              _ensure_authenticated(authenticated, s1).ok,
                       !.device = g.device, !.path = g.path,
                       !.subs = g.subs, !.result = g.result,
                       !.found = IF g.url = "" THEN NoneVal ELSE Some(g.url),
                       !.nLogin = g.nLogin, !.nList = g.nList,
                       !.nAdd = g.nAdd]
        /\ pc' = "idle"
        /\ UNCHANGED <<cfg, issued, call, user_data>>

NextChat ==
    \/ handle_device_selection
    \/ handle_setup
    \/ handle_add_device
    \/ handle_device_name_selected
    \/ handle_enter_custom_device_name
    \/ TextMessage
    \/ AppDownloaded

SpecChat == InitChat /\ [][NextChat]_vars

\* the last event was handle_generate_subscription and it called
\* create_user
CalledCreate ==
    /\ last.op = "generate"
    /\ last.path \notin {"no_username", "existing"}

\* C28: when the user went through the primary flow (get_vpn, platform
\* choice, app downloaded), handle_generate_subscription calls
\* createAccount with no device, whatever happened before.
C28_PrimaryFlowHasNoDevice ==
    (CalledCreate /\ last.arg = "primary") => last.device = <<>>

\* the text of a message names a device: it has 1 to MaxDeviceName
\* characters once the spaces around it are removed
NamesDevice(text) == Len(Strip(text)) \in 1..MaxDeviceName

\* C29: a text message changes user_data only while
\* waiting_for_device_name is set; a text that is empty after trimming or
\* longer than 50 characters leaves the flag set and device_name as it
\* was; an accepted one clears the flag and is stored trimmed; so every
\* typed label that reaches createAccount has 1 to 50 characters.
C29_TypedNameIsChecked ==
    /\ [][last'.op = "text" =>
            IF user_data.waiting_for_device_name /\ NamesDevice(last'.device)
                THEN /\ ~user_data'.waiting_for_device_name
                     /\ user_data'.device_name = Strip(last'.device)
            ELSE user_data' = user_data]_vars
    /\ [](CalledCreate /\ last.device \notin ButtonLabels \cup {<<>>}
            => Len(last.device) \in 1..MaxDeviceName)

\* a typed name of MaxDeviceName characters reached create_user and the
\* account was created
C29_Witness ==
    /\ CalledCreate
    /\ last.path = "created"
    /\ last.device = Letters(MaxDeviceName)

====
